---- MODULE Spec2Model ----
(***************************************************************************)
(* Bout coordinator system (src/index.tsx): several devices mirror one     *)
(* backend row (event_state) and one message table over a realtime         *)
(* channel, and arbitrate the coordinator role through channel presence.   *)
(*                                                                         *)
(* Each device is one BoutCoordinatorApp component: its React state, its   *)
(* localStorage and the connect attempts (connectToSupabase calls) it has  *)
(* started.  The backend is the event_state row, the write requests in     *)
(* flight, the presence map of the room and, per subscribed channel, the   *)
(* queue of change notifications not yet handled.                          *)
(***************************************************************************)
EXTENDS Integers, Sequences, FiniteSets, TLC

\* ------------------------------------------------------------- bounds
MaxAttempts == 2
MaxDoor == 1
MaxInflight == 1
MaxQueue == 1
MaxDeltas == 6
MaxMessages == 2
MaxStored == 52
MaxResets == 2
MaxPresses == 4

\* ---------------------------------------------------------- constants
DefaultCapacity == 300
UNDEF == -1
NaN == -2
UNDEF_STR == "undefined"
FetchLimit == 50
BC_ROLE == "Bout Coordinator"
SYNC_ROLE == "COORDINATOR"
GRID_STATIONS == {"MERCH", "BEER", "TICKETS", "PRODUCTION"}
NO_RECORD == "<absent>"
ERR_MISSING == "Please enter both URL and API Key"
ERR_CONNECT == "Failed to connect. Check credentials."
ERR_THROWN == "<err.message>"

Devices == {1, 2}
Slots == 1..MaxAttempts
Channels == Devices \X Slots
ResetCalls == 1..MaxResets
Roles == {"", BC_ROLE} \cup GRID_STATIONS

Max(a, b) == IF a >= b THEN a ELSE b

VARIABLES
    \* React state of each device
    operatorName, selectedStation, doorCount, capacity, wifiSSID, wifiPass,
    messages, supabaseClient, channel, isConnected, showNetworkModal,
    connectionError, otherCoordinatorOnline, showResetView, resetInputText,
    inputText,
    \* localStorage of each device
    derby_role,
    \* connectToSupabase calls and handleFullReset calls in progress, and the
    \* answers of the two selects of each connectToSupabase call
    attempt, stateData, msgData, resetPc,
    \* backend
    rowExists, row, dbMessages, nextId, inflight, writeFailed,
    \* realtime room
    members, syncPending, queue,
    \* inputs of the function-level specifications
    deltas, applied, payload, before, afterFirst, handled, observed

roleVars == <<operatorName, selectedStation, derby_role>>
mirrorVars == <<doorCount, capacity, wifiSSID, wifiPass>>
logVars == <<messages, inputText>>
connVars == <<supabaseClient, channel, isConnected, attempt, stateData, msgData>>
uiVars == <<showNetworkModal, connectionError, showResetView, resetInputText, resetPc>>
presenceVars == <<otherCoordinatorOnline, members, syncPending>>
backendVars == <<rowExists, row, dbMessages, nextId, inflight, writeFailed>>
inputVars == <<deltas, applied, payload, before, afterFirst, handled, observed>>
vars == <<roleVars, mirrorVars, logVars, connVars, uiVars, presenceVars,
          backendVars, queue>>

\* ------------------------------------------------------------ helpers
Live(c) == attempt[c[1]][c[2]] = "live"
LiveChannels == {c \in Channels : Live(c)}
FreeSlots(d) == {k \in Slots : attempt[d][k] = "idle"}
FirstFree(d) == CHOOSE k \in FreeSlots(d) : \A j \in FreeSlots(d) : k <= j
RemoveAt(s, i) == [j \in 1..(Len(s) - 1) |-> IF j < i THEN s[j] ELSE s[j + 1]]
\* The message select (lines 189-193) over the table in insertion order:
\* newest first, the first 50 of them.
Reverse(s) == [i \in 1..Len(s) |-> s[Len(s) + 1 - i]]
Limit(s, n) == IF Len(s) <= n THEN s ELSE SubSeq(s, 1, n)
SelectRecent(s) == Limit(Reverse(s), FetchLimit)
\* msgData.reverse() (line 196).
OldestFirst_AsFetched(rows) == rows
OldestFirst(rows) == Reverse(rows)
isAssigned(d) == operatorName[d] # ""
isCoordinator(d) == operatorName[d] = BC_ROLE
isOverCapacity_AtCapacity(d) == doorCount[d] >= capacity[d]
\* isOverCapacity (line 411): doorCount > capacity.  A comparison with
\* undefined (a mirror field left undefined by an UPDATE that lacked it,
\* lines 214-215) or with NaN (line 289 on an undefined count) is false.
isOverCapacity(d) ==
    /\ doorCount[d] \notin {UNDEF, NaN} /\ capacity[d] \notin {UNDEF, NaN}
    /\ doorCount[d] > capacity[d]

\* occupancy (line 410): Math.min(100, Math.round((doorCount / (capacity || 1))
\* * 100)), for 0 <= doorCount <= 450 and 0 <= capacity <= 400.  The quotient
\* and the product are IEEE doubles: for the pairs <<doorCount, capacity>> of
\* HalfLost (all there are in that range) the exact value is k + 1/2 and the
\* double product falls just below it, so that Math.round yields k where
\* exact arithmetic yields k + 1.
\* capacity || 1: 0, undefined and NaN are falsy.
OrOne(n) == IF n \in {0, UNDEF, NaN} THEN 1 ELSE n
RoundHalfUp(num, den) == (2 * num + den) \div (2 * den)
HalfLost ==
    {<<23, 40>>, <<41, 40>>, <<51, 40>>, <<87, 40>>, <<97, 40>>,
     <<169, 40>>, <<179, 40>>, <<189, 40>>, <<199, 40>>, <<323, 40>>,
     <<333, 40>>, <<343, 40>>, <<353, 40>>, <<363, 40>>, <<373, 40>>,
     <<383, 40>>, <<393, 40>>, <<403, 40>>, <<46, 80>>, <<82, 80>>,
     <<102, 80>>, <<174, 80>>, <<194, 80>>, <<338, 80>>, <<358, 80>>,
     <<378, 80>>, <<398, 80>>, <<69, 120>>, <<123, 120>>, <<153, 120>>,
     <<261, 120>>, <<291, 120>>, <<92, 160>>, <<164, 160>>, <<204, 160>>,
     <<348, 160>>, <<388, 160>>, <<29, 200>>, <<57, 200>>, <<113, 200>>,
     <<115, 200>>, <<201, 200>>, <<203, 200>>, <<205, 200>>, <<207, 200>>,
     <<251, 200>>, <<253, 200>>, <<255, 200>>, <<427, 200>>, <<431, 200>>,
     <<435, 200>>, <<439, 200>>, <<138, 240>>, <<246, 240>>, <<306, 240>>,
     <<161, 280>>, <<287, 280>>, <<357, 280>>, <<184, 320>>, <<328, 320>>,
     <<408, 320>>, <<207, 360>>, <<369, 360>>, <<58, 400>>, <<114, 400>>,
     <<226, 400>>, <<230, 400>>, <<402, 400>>, <<406, 400>>, <<410, 400>>,
     <<414, 400>>}
MathRoundPercent(count, cap) ==
    IF <<count, cap>> \in HalfLost
    THEN RoundHalfUp(100 * count, cap) - 1
    ELSE RoundHalfUp(100 * count, cap)
Min(a, b) == IF a <= b THEN a ELSE b
\* An undefined or NaN doorCount makes the quotient NaN, and Math.round and
\* Math.min keep it.
occupancy(d) ==
    IF doorCount[d] \in {UNDEF, NaN} THEN NaN
    ELSE Min(100, MathRoundPercent(doorCount[d], OrOne(capacity[d])))

\* The local mirror of the event_state row, as one record.
Mirror(d) == [doorCount |-> doorCount[d], capacity |-> capacity[d],
              wifiSSID |-> wifiSSID[d], wifiPass |-> wifiPass[d]]
SetMirror(d, m) ==
    /\ doorCount' = [doorCount EXCEPT ![d] = m.doorCount]
    /\ capacity' = [capacity EXCEPT ![d] = m.capacity]
    /\ wifiSSID' = [wifiSSID EXCEPT ![d] = m.wifiSSID]
    /\ wifiPass' = [wifiPass EXCEPT ![d] = m.wifiPass]

\* Initial fetch (lines 181-186): the counters are copied, the WiFi fields
\* only when truthy.
Hydrate(m, data) ==
    [doorCount |-> data.door_count,
     capacity |-> data.capacity,
     wifiSSID |-> IF data.wifi_ssid # "" THEN data.wifi_ssid ELSE m.wifiSSID,
     wifiPass |-> IF data.wifi_pass # "" THEN data.wifi_pass ELSE m.wifiPass]

ApplyUpdate_AsDelta(m, newState) ==
    [doorCount |-> m.doorCount + newState.door_count,
     capacity |-> newState.capacity,
     wifiSSID |-> IF newState.wifi_ssid # UNDEF_STR THEN newState.wifi_ssid ELSE m.wifiSSID,
     wifiPass |-> IF newState.wifi_pass # UNDEF_STR THEN newState.wifi_pass ELSE m.wifiPass]

\* event_state UPDATE handler (lines 212-218): door_count and capacity are
\* assigned whatever payload.new holds (undefined when the field is absent),
\* the WiFi fields only when the payload has them.
ApplyUpdate(m, newState) ==
    [doorCount |-> newState.door_count,
     capacity |-> newState.capacity,
     wifiSSID |-> IF newState.wifi_ssid # UNDEF_STR THEN newState.wifi_ssid ELSE m.wifiSSID,
     wifiPass |-> IF newState.wifi_pass # UNDEF_STR THEN newState.wifi_pass ELSE m.wifiPass]

\* Presence sync handler (lines 229-241) over the membership map.
BcMatch_AnyDevice(role, device_id, self) == role = BC_ROLE
BcMatch(role, device_id, self) == role = SYNC_ROLE /\ device_id # self
BcFound(state, self) == \E c \in Channels : BcMatch(state[c], c[1], self)

\* channel.track on channel c: the room's record of c is replaced and every
\* subscribed channel (those of `live`) is sent a presence sync.
Track(c, role, live) ==
    /\ members' = [members EXCEPT ![c] = role]
    /\ syncPending' = [x \in Channels |-> IF x \in live THEN TRUE ELSE syncPending[x]]

RoleEffect_PersistOnly(d, role) ==
    /\ derby_role' = [derby_role EXCEPT ![d] = role]
    /\ UNCHANGED <<members, syncPending>>

\* The role effect (lines 86-101), run after every change of operatorName.
RoleEffect(d, role) ==
    /\ derby_role' = [derby_role EXCEPT ![d] = role]
    /\ IF channel[d] # 0
       THEN Track(<<d, channel[d]>>, role, LiveChannels)
       ELSE UNCHANGED <<members, syncPending>>

\* Capacity input (line 640): Math.max(1, parseInt(e.target.value) || 0).
\* parseInt over the texts the model types into the field.
ParseInt(text) ==
    CASE text = "0" -> [nan |-> FALSE, val |-> 0]
      [] text = "1" -> [nan |-> FALSE, val |-> 1]
      [] text = "2" -> [nan |-> FALSE, val |-> 2]
      [] text = "-3" -> [nan |-> FALSE, val |-> -3]
      [] OTHER -> [nan |-> TRUE, val |-> 0]
OrZero(n) == IF n.nan \/ n.val = 0 THEN 0 ELSE n.val
CapacityFromInput_NoFloor(text) == OrZero(ParseInt(text))
CapacityFromInput(text) == Max(1, OrZero(ParseInt(text)))
\* handleDoorChange's new count (line 289): Math.max(0, doorCount + delta).
\* With doorCount undefined (left so by an UPDATE that lacked door_count,
\* line 214) or NaN the sum is NaN, and Math.max keeps it.
ClampCount_NoFloor(current, delta) == current + delta
ClampCount(current, delta) ==
    IF current \in {UNDEF, NaN} THEN NaN ELSE Max(0, current + delta)

\* --------------------------------------------------------------- Init
\* The state after the component has mounted on every device with nothing in
\* localStorage: default React state, and the mount effect (lines 104-146)
\* has called connectToSupabase with the built-in credentials.
FreshAttempts == [k \in Slots |-> IF k = 1 THEN "fetchState" ELSE "idle"]
\* What `data` holds before a select is answered, and when it is answered
\* with an error: null.
NULL_STATE == [null |-> TRUE,
               row |-> [door_count |-> 0, capacity |-> 0,
                        wifi_ssid |-> "", wifi_pass |-> ""]]
NULL_MSGS == [null |-> TRUE, rows |-> <<>>]

\* saved: the role each device holds in localStorage (lines 78-83 restore it).
Mounted(saved) ==
    /\ operatorName = saved
    /\ selectedStation = [d \in Devices |-> ""]
    /\ derby_role = saved
    /\ doorCount = [d \in Devices |-> 0]
    /\ capacity = [d \in Devices |-> DefaultCapacity]
    /\ wifiSSID = [d \in Devices |-> ""]
    /\ wifiPass = [d \in Devices |-> ""]
    /\ messages = [d \in Devices |-> <<>>]
    /\ supabaseClient = [d \in Devices |-> 0]
    /\ channel = [d \in Devices |-> 0]
    /\ isConnected = [d \in Devices |-> FALSE]
    /\ showNetworkModal = [d \in Devices |-> FALSE]
    /\ connectionError = [d \in Devices |-> ""]
    /\ otherCoordinatorOnline = [d \in Devices |-> FALSE]
    /\ showResetView = [d \in Devices |-> FALSE]
    /\ resetInputText = [d \in Devices |-> ""]
    /\ inputText = [d \in Devices |-> ""]
    /\ resetPc = [d \in Devices |-> [j \in ResetCalls |-> "idle"]]
    /\ attempt = [d \in Devices |-> FreshAttempts]
    /\ stateData = [d \in Devices |-> [k \in Slots |-> NULL_STATE]]
    /\ msgData = [d \in Devices |-> [k \in Slots |-> NULL_MSGS]]

InitDevices == Mounted([d \in Devices |-> ""])

InitRoom ==
    /\ members = [c \in Channels |-> NO_RECORD]
    /\ syncPending = [c \in Channels |-> FALSE]
    /\ queue = [c \in Channels |-> <<>>]

InitBackend ==
    /\ rowExists \in BOOLEAN
    /\ row = [door_count |-> 0, capacity |-> DefaultCapacity,
              wifi_ssid |-> "", wifi_pass |-> ""]
    /\ dbMessages = <<>>
    /\ nextId = 1
    /\ inflight = <<>>
    /\ writeFailed = FALSE

NoInputs ==
    /\ deltas = <<>>
    /\ applied = 0
    /\ payload = [door_count |-> 0, capacity |-> 1, wifi_ssid |-> "", wifi_pass |-> ""]
    /\ before = Mirror(1)
    /\ afterFirst = Mirror(1)
    /\ handled = 0
    /\ observed = [d \in Devices |-> UNDEF]

Init == InitDevices /\ InitRoom /\ InitBackend /\ NoInputs

\* ------------------------------------------------- connection lifecycle
\* Header button (line 469).
OpenNetworkModal(d) ==
    /\ ~showNetworkModal[d]
    /\ showNetworkModal' = [showNetworkModal EXCEPT ![d] = TRUE]
    /\ UNCHANGED <<roleVars, mirrorVars, logVars, connVars, connectionError,
                   showResetView, resetInputText, resetPc, presenceVars,
                   backendVars, queue>>

\* Close button of the modal (line 521).
CloseNetworkModal(d) ==
    /\ showNetworkModal[d]
    /\ showNetworkModal' = [showNetworkModal EXCEPT ![d] = FALSE]
    /\ UNCHANGED <<roleVars, mirrorVars, logVars, connVars, connectionError,
                   showResetView, resetInputText, resetPc, presenceVars,
                   backendVars, queue>>

\* connectToSupabase up to its first await (lines 165-172), from the CONNECT
\* DATABASE button (lines 619-621), shown while the device is not connected.
\* cred: "empty" (a field is empty), "invalid" (createClient throws; the error
\* shown is the thrown message, or the fallback text when it has none) or "valid".
\* The buttons of the configuration modal can be reached whenever the user
\* wants them (the modal opens on a click, line 469), so showNetworkModal
\* guards no handler; showResetView decides which controls of the reset
\* section are rendered (line 564) and guards their handlers.
ConnectToSupabase(d, cred) ==
    /\ ~isConnected[d]
    /\ \/ /\ cred = "empty"
          /\ connectionError' = [connectionError EXCEPT ![d] = ERR_MISSING]
          /\ UNCHANGED <<isConnected, attempt>>
       \/ /\ cred = "invalid"
          /\ \E msg \in {ERR_THROWN, ERR_CONNECT} :
                 connectionError' = [connectionError EXCEPT ![d] = msg]
          /\ isConnected' = [isConnected EXCEPT ![d] = FALSE]
          /\ UNCHANGED attempt
       \/ /\ cred = "valid"
          /\ FreeSlots(d) # {}
          /\ attempt' = [attempt EXCEPT ![d][FirstFree(d)] = "fetchState"]
          /\ UNCHANGED <<isConnected, connectionError>>
    /\ UNCHANGED <<roleVars, mirrorVars, logVars, supabaseClient, channel,
                   stateData, msgData,
                   showNetworkModal, showResetView, resetInputText, resetPc,
                   presenceVars, backendVars, queue>>

\* 1. Initial fetch, the request (lines 175-179): the backend answers the
\* select of call k with the event_state row as it is at that moment.
\* ok = FALSE: the request failed; the client returns {data: null, error} and
\* does not throw.  .single() over a table without the row gives data null too.
ServeStateSelect(d, k, ok) ==
    /\ attempt[d][k] = "fetchState"
    /\ attempt' = [attempt EXCEPT ![d][k] = "gotState"]
    /\ stateData' = [stateData EXCEPT ![d][k] =
                        IF ok /\ rowExists THEN [null |-> FALSE, row |-> row]
                        ELSE NULL_STATE]
    /\ UNCHANGED <<roleVars, mirrorVars, logVars, supabaseClient, channel, isConnected,
                   msgData, uiVars, presenceVars, backendVars, queue>>

\* 1. Initial fetch, the continuation (lines 181-186): the answer reaches the
\* device, which copies it into the mirror and sends the message select
\* (lines 189-193).
FetchState(d, k) ==
    /\ attempt[d][k] = "gotState"
    /\ attempt' = [attempt EXCEPT ![d][k] = "fetchMsgs"]
    /\ IF ~stateData[d][k].null
       THEN SetMirror(d, Hydrate(Mirror(d), stateData[d][k].row))
       ELSE UNCHANGED mirrorVars
    /\ stateData' = [stateData EXCEPT ![d][k] = NULL_STATE]
    /\ UNCHANGED <<roleVars, logVars, supabaseClient, channel, isConnected,
                   msgData, uiVars, presenceVars, backendVars, queue>>

\* Fetch recent messages, the request (lines 189-193): the backend answers
\* with the newest 50 rows of the table as it is at that moment.
ServeMessagesSelect(d, k, ok) ==
    /\ attempt[d][k] = "fetchMsgs"
    /\ attempt' = [attempt EXCEPT ![d][k] = "gotMsgs"]
    /\ msgData' = [msgData EXCEPT ![d][k] =
                      IF ok THEN [null |-> FALSE, rows |-> SelectRecent(dbMessages)]
                      ELSE NULL_MSGS]
    /\ UNCHANGED <<roleVars, mirrorVars, logVars, supabaseClient, channel, isConnected,
                   stateData, uiVars, presenceVars, backendVars, queue>>

\* Fetch recent messages, the continuation (lines 195-197): the answer,
\* reversed to oldest first, replaces the log; the channel is then built and
\* subscribed (lines 200-243).
FetchMessages(d, k) ==
    /\ attempt[d][k] = "gotMsgs"
    /\ attempt' = [attempt EXCEPT ![d][k] = "joining"]
    /\ IF ~msgData[d][k].null
       THEN messages' = [messages EXCEPT ![d] = OldestFirst(msgData[d][k].rows)]
       ELSE UNCHANGED messages
    /\ msgData' = [msgData EXCEPT ![d][k] = NULL_MSGS]
    /\ UNCHANGED <<roleVars, mirrorVars, inputText, supabaseClient, channel, isConnected,
                   stateData, uiVars, presenceVars, backendVars, queue>>

\* subscribe callback with status SUBSCRIBED (lines 243-263).  The callback
\* tracks the role read from localStorage (line 252); setChannel then re-runs
\* the role effect (lines 94-100), which tracks operatorName on the same
\* channel, so the record left in the room carries operatorName.  The server
\* answers the join with the presence state: a sync is pending for the channel.
Subscribed(d, k) ==
    /\ attempt[d][k] = "joining"
    /\ attempt' = [attempt EXCEPT ![d][k] = "live"]
    /\ isConnected' = [isConnected EXCEPT ![d] = TRUE]
    /\ supabaseClient' = [supabaseClient EXCEPT ![d] = k]
    /\ channel' = [channel EXCEPT ![d] = k]
    /\ showNetworkModal' = [showNetworkModal EXCEPT ![d] = FALSE]
    /\ connectionError' = [connectionError EXCEPT ![d] = ""]
    /\ LET currentRole == derby_role[d]
           tracked == [members EXCEPT ![<<d, k>>] = currentRole]
       IN  /\ members' = [tracked EXCEPT ![<<d, k>>] = operatorName[d]]
           /\ syncPending' = [x \in Channels |->
                                IF x \in LiveChannels \cup {<<d, k>>}
                                THEN TRUE ELSE syncPending[x]]
    /\ UNCHANGED <<roleVars, mirrorVars, logVars, stateData, msgData, showResetView,
                   resetInputText, resetPc, otherCoordinatorOnline, backendVars, queue>>

\* subscribe callback with any other status (CHANNEL_ERROR, TIMED_OUT): the
\* callback does nothing (line 244) and the attempt is over.
SubscribeError(d, k) ==
    /\ attempt[d][k] = "joining"
    /\ attempt' = [attempt EXCEPT ![d][k] = "idle"]
    /\ UNCHANGED <<roleVars, mirrorVars, logVars, supabaseClient, channel,
                   isConnected, stateData, msgData, uiVars, presenceVars,
                   backendVars, queue>>

\* disconnect (lines 273-284), from the DISCONNECT & CLEAR button (line 558).
\* removeAllChannels closes the channel of the client held in state: its
\* presence record leaves the room and the other channels are sent a sync.
Disconnect(d) ==
    /\ isConnected[d]
    /\ LET k == supabaseClient[d]
           closed == IF k = 0 THEN {} ELSE {<<d, k>>}
       IN  /\ attempt' = [attempt EXCEPT ![d] =
                            [j \in Slots |-> IF j = k THEN "idle" ELSE attempt[d][j]]]
           /\ members' = [c \in Channels |-> IF c \in closed THEN NO_RECORD ELSE members[c]]
           /\ queue' = [c \in Channels |-> IF c \in closed THEN <<>> ELSE queue[c]]
           /\ syncPending' = [c \in Channels |->
                                IF c \in closed THEN FALSE
                                ELSE IF Live(c) /\ closed # {} THEN TRUE
                                ELSE syncPending[c]]
    /\ supabaseClient' = [supabaseClient EXCEPT ![d] = 0]
    /\ channel' = [channel EXCEPT ![d] = 0]
    /\ isConnected' = [isConnected EXCEPT ![d] = FALSE]
    /\ messages' = [messages EXCEPT ![d] = <<>>]
    /\ doorCount' = [doorCount EXCEPT ![d] = 0]
    /\ UNCHANGED <<roleVars, capacity, wifiSSID, wifiPass, inputText, stateData,
                   msgData, uiVars, otherCoordinatorOnline, backendVars>>

\* ------------------------------------------------------ roles, presence
\* handleClaimBC (lines 334-337) followed by the role effect.
handleClaimBC(d) ==
    /\ operatorName' = [operatorName EXCEPT ![d] = BC_ROLE]
    /\ selectedStation' = [selectedStation EXCEPT ![d] = ""]
    /\ RoleEffect(d, BC_ROLE)

\* handleRoleSelect (lines 339-349), from the role select (lines 438-447):
\* shown while no role is assigned, its COORDINATOR option disabled while
\* otherCoordinatorOnline.
handleRoleSelect(d, role) ==
    /\ ~isAssigned(d)
    /\ role \in GRID_STATIONS \cup {"COORDINATOR"}
    /\ role = "COORDINATOR" => ~otherCoordinatorOnline[d]
    /\ IF role = "COORDINATOR"
       THEN handleClaimBC(d)
       ELSE /\ operatorName' = [operatorName EXCEPT ![d] = role]
            /\ selectedStation' = [selectedStation EXCEPT ![d] = ""]
            /\ RoleEffect(d, role)
    /\ UNCHANGED <<mirrorVars, logVars, connVars, uiVars, otherCoordinatorOnline,
                   backendVars, queue>>

\* handleRelease (lines 351-354), from the sign-off button (line 434).
handleRelease(d) ==
    /\ isAssigned(d)
    /\ operatorName' = [operatorName EXCEPT ![d] = ""]
    /\ selectedStation' = [selectedStation EXCEPT ![d] = ""]
    /\ RoleEffect(d, "")
    /\ UNCHANGED <<mirrorVars, logVars, connVars, uiVars, otherCoordinatorOnline,
                   backendVars, queue>>

\* handleStationClick (lines 356-360), from a station card (line 694): a
\* coordinator selects the station, or clears it when it is already selected;
\* for any other role the click does nothing.
handleStationClick(d, station) ==
    /\ station \in GRID_STATIONS
    /\ IF operatorName[d] = BC_ROLE
       THEN selectedStation' = [selectedStation EXCEPT ![d] =
                                   IF @ = station THEN "" ELSE station]
       ELSE UNCHANGED selectedStation
    /\ UNCHANGED <<operatorName, derby_role, mirrorVars, logVars, connVars,
                   uiVars, presenceVars, backendVars, queue>>

\* Clear-selection button (lines 718-722), shown to a coordinator with a
\* station selected.
ClearStation(d) ==
    /\ isCoordinator(d) /\ selectedStation[d] # ""
    /\ selectedStation' = [selectedStation EXCEPT ![d] = ""]
    /\ UNCHANGED <<operatorName, derby_role, mirrorVars, logVars, connVars,
                   uiVars, presenceVars, backendVars, queue>>

\* Presence sync handler of channel <<d, k>> (lines 228-242): the channel's
\* presence state has caught up with the room's membership map.
PresenceSync(d, k) ==
    /\ Live(<<d, k>>) /\ syncPending[<<d, k>>]
    /\ syncPending' = [syncPending EXCEPT ![<<d, k>>] = FALSE]
    /\ otherCoordinatorOnline' =
           [otherCoordinatorOnline EXCEPT ![d] = BcFound(members, d)]
    /\ UNCHANGED <<roleVars, mirrorVars, logVars, connVars, uiVars, members,
                   backendVars, queue>>

\* The page is reloaded: the component mounts again (lines 34-146).  Every
\* channel of the device closes, React state is the default state, the saved
\* role is restored from localStorage (lines 78-83) and the mount effect
\* starts a connect.  Requests already sent stay in flight, unawaited.
Reload(d) ==
    /\ LET closed == {c \in LiveChannels : c[1] = d}
       IN  /\ members' = [c \in Channels |-> IF c[1] = d THEN NO_RECORD ELSE members[c]]
           /\ queue' = [c \in Channels |-> IF c[1] = d THEN <<>> ELSE queue[c]]
           /\ syncPending' = [c \in Channels |->
                                IF c[1] = d THEN FALSE
                                ELSE IF Live(c) /\ closed # {} THEN TRUE
                                ELSE syncPending[c]]
    /\ operatorName' = [operatorName EXCEPT ![d] = derby_role[d]]
    /\ selectedStation' = [selectedStation EXCEPT ![d] = ""]
    /\ doorCount' = [doorCount EXCEPT ![d] = 0]
    /\ capacity' = [capacity EXCEPT ![d] = DefaultCapacity]
    /\ wifiSSID' = [wifiSSID EXCEPT ![d] = ""]
    /\ wifiPass' = [wifiPass EXCEPT ![d] = ""]
    /\ messages' = [messages EXCEPT ![d] = <<>>]
    /\ supabaseClient' = [supabaseClient EXCEPT ![d] = 0]
    /\ channel' = [channel EXCEPT ![d] = 0]
    /\ isConnected' = [isConnected EXCEPT ![d] = FALSE]
    /\ showNetworkModal' = [showNetworkModal EXCEPT ![d] = FALSE]
    /\ connectionError' = [connectionError EXCEPT ![d] = ""]
    /\ otherCoordinatorOnline' = [otherCoordinatorOnline EXCEPT ![d] = FALSE]
    /\ showResetView' = [showResetView EXCEPT ![d] = FALSE]
    /\ resetInputText' = [resetInputText EXCEPT ![d] = ""]
    /\ inputText' = [inputText EXCEPT ![d] = ""]
    /\ resetPc' = [resetPc EXCEPT ![d] = [j \in ResetCalls |-> "idle"]]
    /\ attempt' = [attempt EXCEPT ![d] = FreshAttempts]
    /\ stateData' = [stateData EXCEPT ![d] = [k \in Slots |-> NULL_STATE]]
    /\ msgData' = [msgData EXCEPT ![d] = [k \in Slots |-> NULL_MSGS]]
    /\ inflight' = [i \in 1..Len(inflight) |->
                      IF inflight[i].dev = d
                      THEN [inflight[i] EXCEPT !.awaited = FALSE]
                      ELSE inflight[i]]
    /\ UNCHANGED <<derby_role, rowExists, row, dbMessages, nextId, writeFailed>>

\* ------------------------------------------------------ counter, reset
\* A request sent to the backend.  awaited: the caller's continuation runs on
\* the response (handleFullReset, whose call is `call`); the other handlers
\* do nothing after it.
Request(d, op, val, awaited) ==
    [dev |-> d, op |-> op, val |-> val, awaited |-> awaited, call |-> 0]
ResetRequest(d, op, j) ==
    [dev |-> d, op |-> op, val |-> 0, awaited |-> TRUE, call |-> j]

\* The handleFullReset calls of a device: nothing guards the CONFIRM button
\* while a call is waiting for a response (line 583 tests the text only), so
\* several calls may be in progress, each at its own await.
ResetQuiet(d) == \A j \in ResetCalls : resetPc[d][j] = "idle"
FreeCalls(d) == {j \in ResetCalls : resetPc[d][j] = "idle"}
FirstFreeCall(d) == CHOOSE j \in FreeCalls(d) : \A i \in FreeCalls(d) : j <= i

\* handleDoorChange (lines 288-298).
handleDoorChange(d, delta) ==
    LET newCount == ClampCount(doorCount[d], delta)
    IN  /\ doorCount' = [doorCount EXCEPT ![d] = newCount]
        /\ IF supabaseClient[d] # 0
           THEN /\ Len(inflight) < MaxInflight
                /\ inflight' = Append(inflight, Request(d, "door", newCount, FALSE))
           ELSE UNCHANGED inflight
        /\ UNCHANGED <<roleVars, capacity, wifiSSID, wifiPass, logVars, connVars,
                       uiVars, presenceVars, rowExists, row, dbMessages, nextId,
                       writeFailed, queue>>

\* handleCapacityChange (lines 300-309) with the capacity input's value (line 640).
handleCapacityChange(d, text) ==
    LET newCap == CapacityFromInput(text)
    IN  /\ capacity' = [capacity EXCEPT ![d] = newCap]
        /\ IF supabaseClient[d] # 0
           THEN /\ Len(inflight) < MaxInflight
                /\ inflight' = Append(inflight, Request(d, "cap", newCap, FALSE))
           ELSE UNCHANGED inflight
        /\ UNCHANGED <<roleVars, doorCount, wifiSSID, wifiPass, logVars, connVars,
                       uiVars, presenceVars, rowExists, row, dbMessages, nextId,
                       writeFailed, queue>>

\* WiFi fields of the modal (lines 530-548): onChange of the SSID and of the
\* password.
SetWifiSSID(d, text) ==
    /\ wifiSSID[d] # text
    /\ wifiSSID' = [wifiSSID EXCEPT ![d] = text]
    /\ UNCHANGED <<roleVars, doorCount, capacity, wifiPass, logVars, connVars,
                   uiVars, presenceVars, backendVars, queue>>

SetWifiPass(d, text) ==
    /\ wifiPass[d] # text
    /\ wifiPass' = [wifiPass EXCEPT ![d] = text]
    /\ UNCHANGED <<roleVars, doorCount, capacity, wifiSSID, logVars, connVars,
                   uiVars, presenceVars, backendVars, queue>>

\* handleWifiSave (lines 395-403), on blur of either WiFi field: both fields
\* are written to the row when a client is set, nothing happens otherwise.
handleWifiSave(d) ==
    /\ IF supabaseClient[d] # 0
       THEN /\ Len(inflight) < MaxInflight
            /\ inflight' = Append(inflight,
                  Request(d, "wifi", [wifi_ssid |-> wifiSSID[d],
                                      wifi_pass |-> wifiPass[d]], FALSE))
       ELSE UNCHANGED inflight
    /\ UNCHANGED <<roleVars, mirrorVars, logVars, connVars, uiVars, presenceVars,
                   rowExists, row, dbMessages, nextId, writeFailed, queue>>

\* The response to request w reaches its caller: handleFullReset goes on
\* whatever the outcome, since the result of the await is not inspected
\* (lines 315-323).
Respond(w) ==
    IF ~w.awaited THEN resetPc
    ELSE [resetPc EXCEPT ![w.dev][w.call] =
            IF w.op = "resetDoor" /\ @ = "awaitUpdate" THEN "gotUpdate"
            ELSE IF w.op = "deleteAll" /\ @ = "awaitDelete" THEN "gotDelete"
            ELSE @]

\* The row after request w is applied to it.
Written(r, w) ==
    CASE w.op = "door" -> [r EXCEPT !.door_count = w.val]
      [] w.op = "cap" -> [r EXCEPT !.capacity = w.val]
      [] w.op = "resetDoor" -> [r EXCEPT !.door_count = 0]
      [] w.op = "wifi" -> [r EXCEPT !.wifi_ssid = w.val.wifi_ssid,
                                    !.wifi_pass = w.val.wifi_pass]
      [] OTHER -> r

\* The messages row the backend stores for insert request w: the backend
\* assigns the id (Message.id, line 11).
Stored(w) == [id |-> nextId, time |-> w.val.time, station |-> w.val.station,
              text |-> w.val.text]

\* The backend serves request i (requests are served in any order).  An
\* update of the event_state row is committed and an UPDATE notification with
\* the whole new row is queued on every subscribed channel; an insert into
\* messages is committed with a fresh id and an INSERT notification with the
\* stored row is queued on every subscribed channel; the bulk delete empties
\* the table and notifies nobody (no DELETE handler is registered).
CommitWrite(i) ==
    /\ i \in 1..Len(inflight)
    /\ LET w == inflight[i]
           updates == rowExists /\ w.op \in {"door", "cap", "resetDoor", "wifi"}
           inserts == w.op = "insert"
           newRow == Written(row, w)
           note == IF inserts THEN [type |-> "INSERT", new |-> Stored(w)]
                   ELSE [type |-> "UPDATE", new |-> newRow]
       IN  /\ inflight' = RemoveAt(inflight, i)
           /\ row' = IF updates THEN newRow ELSE row
           /\ dbMessages' = IF w.op = "deleteAll" THEN <<>>
                            ELSE IF inserts THEN Append(dbMessages, Stored(w))
                            ELSE dbMessages
           /\ nextId' = IF inserts THEN nextId + 1 ELSE nextId
           /\ IF updates \/ inserts
              THEN /\ \A c \in LiveChannels : Len(queue[c]) < MaxQueue
                   /\ queue' = [c \in Channels |->
                                  IF Live(c) THEN Append(queue[c], note)
                                  ELSE queue[c]]
              ELSE UNCHANGED queue
           /\ resetPc' = Respond(w)
    /\ UNCHANGED <<roleVars, mirrorVars, logVars, connVars, showNetworkModal,
                   connectionError, showResetView, resetInputText, presenceVars,
                   rowExists, writeFailed>>

FailWrite_Rollback(i) ==
    /\ i \in 1..Len(inflight)
    /\ writeFailed' = TRUE
    /\ inflight' = RemoveAt(inflight, i)
    /\ resetPc' = Respond(inflight[i])
    /\ doorCount' = [doorCount EXCEPT ![inflight[i].dev] = row.door_count]
    /\ capacity' = [capacity EXCEPT ![inflight[i].dev] = row.capacity]
    /\ UNCHANGED <<roleVars, wifiSSID, wifiPass, logVars, connVars, showNetworkModal,
                   connectionError, showResetView, resetInputText, presenceVars,
                   rowExists, row, dbMessages, nextId, queue>>

\* Request i fails (rejected, or the network drops it): nothing is written,
\* nothing is notified, and no handler reacts to the error.
FailWrite(i) ==
    /\ i \in 1..Len(inflight)
    /\ writeFailed' = TRUE
    /\ inflight' = RemoveAt(inflight, i)
    /\ resetPc' = Respond(inflight[i])
    /\ UNCHANGED <<roleVars, mirrorVars, logVars, connVars, showNetworkModal,
                   connectionError, showResetView, resetInputText, presenceVars,
                   rowExists, row, dbMessages, nextId, queue>>

\* event_state UPDATE handler of channel <<d, k>> (lines 208-219) on the
\* oldest notification queued for it.
OnEventStateUpdate(d, k) ==
    /\ Live(<<d, k>>)
    /\ queue[<<d, k>>] # <<>>
    /\ Head(queue[<<d, k>>]).type = "UPDATE"
    /\ SetMirror(d, ApplyUpdate(Mirror(d), Head(queue[<<d, k>>]).new))
    /\ queue' = [queue EXCEPT ![<<d, k>>] = Tail(@)]
    /\ UNCHANGED <<roleVars, logVars, connVars, uiVars, presenceVars,
                   backendVars>>

\* messages INSERT handler of channel <<d, k>> (lines 220-227) on the oldest
\* notification queued for it: the new message is appended unconditionally.
OnMessageInsert(d, k) ==
    /\ Live(<<d, k>>)
    /\ queue[<<d, k>>] # <<>>
    /\ Head(queue[<<d, k>>]).type = "INSERT"
    /\ messages' = [messages EXCEPT ![d] = Append(@, Head(queue[<<d, k>>]).new)]
    /\ queue' = [queue EXCEPT ![<<d, k>>] = Tail(@)]
    /\ UNCHANGED <<roleVars, mirrorVars, inputText, connVars, uiVars,
                   presenceVars, backendVars>>

\* String.prototype.trim over the texts the model types into the message box.
Trim(text) ==
    CASE text = " " -> ""
      [] text = " hi " -> "hi"
      [] OTHER -> text

\* timeStr of handleSendMessage (lines 366-371) from the clock's hours and
\* minutes: 12-hour clock, minutes, AM or PM.
TimeStr(hours, minutes) ==
    [hour12 |-> IF hours % 12 = 0 THEN 12 ELSE hours % 12,
     minutes |-> minutes,
     ampm |-> IF hours >= 12 THEN "PM" ELSE "AM"]

Sender_RoleName(d) == operatorName[d]

\* sender of handleSendMessage (lines 373-378).
Sender(d) ==
    IF operatorName[d] = BC_ROLE
    THEN (IF selectedStation[d] # "" THEN selectedStation[d] ELSE "COORDINATOR")
    ELSE operatorName[d]

\* Message box (lines 724-731), enabled while a role is assigned.
SetInputText(d, text) ==
    /\ isAssigned(d)
    /\ inputText[d] # text
    /\ inputText' = [inputText EXCEPT ![d] = text]
    /\ UNCHANGED <<roleVars, mirrorVars, messages, connVars, uiVars,
                   presenceVars, backendVars, queue>>

\* handleSendMessage (lines 362-393), from the message form (line 714), whose
\* submit button is enabled while a role is assigned (line 732).  The message
\* is not added to the local log: it arrives through the INSERT notification.
handleSendMessage(d, hours, minutes) ==
    /\ isAssigned(d)
    /\ IF Trim(inputText[d]) = ""
       THEN UNCHANGED <<inputText, inflight>>
       ELSE /\ inputText' = [inputText EXCEPT ![d] = ""]
            /\ IF supabaseClient[d] # 0
               THEN /\ Len(inflight) < MaxInflight
                    /\ inflight' = Append(inflight,
                          Request(d, "insert",
                                  [time |-> TimeStr(hours, minutes),
                                   station |-> Sender(d),
                                   text |-> Trim(inputText[d])], FALSE))
               ELSE UNCHANGED inflight
    /\ UNCHANGED <<roleVars, mirrorVars, messages, connVars, uiVars,
                   presenceVars, rowExists, row, dbMessages, nextId,
                   writeFailed, queue>>

\* RESET EVENT DATA button (line 565), in the modal of a connected device.
ShowResetView(d) ==
    /\ isConnected[d] /\ ~showResetView[d]
    /\ showResetView' = [showResetView EXCEPT ![d] = TRUE]
    /\ UNCHANGED <<roleVars, mirrorVars, logVars, connVars, showNetworkModal,
                   connectionError, resetInputText, resetPc, presenceVars,
                   backendVars, queue>>

\* Cancel button of the reset view (lines 589-595).
CancelReset(d) ==
    /\ isConnected[d] /\ showResetView[d]
    /\ showResetView' = [showResetView EXCEPT ![d] = FALSE]
    /\ resetInputText' = [resetInputText EXCEPT ![d] = ""]
    /\ UNCHANGED <<roleVars, mirrorVars, logVars, connVars, showNetworkModal,
                   connectionError, resetPc, presenceVars, backendVars, queue>>

\* Confirmation input (lines 574-580), rendered in the reset view only
\* (line 564).
SetResetInputText(d, text) ==
    /\ isConnected[d] /\ showResetView[d]
    /\ resetInputText[d] # text
    /\ resetInputText' = [resetInputText EXCEPT ![d] = text]
    /\ UNCHANGED <<roleVars, mirrorVars, logVars, connVars, showNetworkModal,
                   connectionError, showResetView, resetPc, presenceVars,
                   backendVars, queue>>

ResetLocal_KeepLog(d) ==
    /\ doorCount' = [doorCount EXCEPT ![d] = 0]
    /\ UNCHANGED messages
    /\ showResetView' = [showResetView EXCEPT ![d] = FALSE]
    /\ resetInputText' = [resetInputText EXCEPT ![d] = ""]
    /\ showNetworkModal' = [showNetworkModal EXCEPT ![d] = FALSE]

\* The local end of handleFullReset (lines 326-331).
ResetLocal(d) ==
    /\ doorCount' = [doorCount EXCEPT ![d] = 0]
    /\ messages' = [messages EXCEPT ![d] = <<>>]
    /\ showResetView' = [showResetView EXCEPT ![d] = FALSE]
    /\ resetInputText' = [resetInputText EXCEPT ![d] = ""]
    /\ showNetworkModal' = [showNetworkModal EXCEPT ![d] = FALSE]

handleFullReset_NoGate(d) ==
    /\ isConnected[d]
    /\ FreeCalls(d) # {}
    /\ Len(inflight) < MaxInflight
    /\ inflight' = Append(inflight, ResetRequest(d, "resetDoor", FirstFreeCall(d)))
    /\ resetPc' = [resetPc EXCEPT ![d][FirstFreeCall(d)] = "awaitUpdate"]
    /\ UNCHANGED <<roleVars, mirrorVars, logVars, connVars, showNetworkModal,
                   connectionError, showResetView, resetInputText, presenceVars,
                   rowExists, row, dbMessages, nextId, writeFailed, queue>>

\* handleFullReset up to its first await (lines 311-318), from the CONFIRM
\* button (lines 581-587) in the modal of a connected device.  A new call
\* starts whether or not earlier calls of the device are still in progress.
handleFullReset(d) ==
    /\ isConnected[d]
    /\ IF resetInputText[d] # "RESET"
       THEN UNCHANGED <<doorCount, messages, showResetView, resetInputText,
                        showNetworkModal, resetPc, inflight>>
       ELSE IF supabaseClient[d] # 0
       THEN /\ FreeCalls(d) # {}
            /\ Len(inflight) < MaxInflight
            /\ inflight' = Append(inflight,
                                  ResetRequest(d, "resetDoor", FirstFreeCall(d)))
            /\ resetPc' = [resetPc EXCEPT ![d][FirstFreeCall(d)] = "awaitUpdate"]
            /\ UNCHANGED <<doorCount, messages, showResetView, resetInputText,
                           showNetworkModal>>
       ELSE /\ ResetLocal(d)
            /\ UNCHANGED <<resetPc, inflight>>
    /\ UNCHANGED <<roleVars, capacity, wifiSSID, wifiPass, inputText, connVars,
                   connectionError, presenceVars, rowExists, row, dbMessages,
                   nextId, writeFailed, queue>>

\* handleFullReset after the update's response: the bulk delete (lines 320-323).
ResetDeleteMessages(d, j) ==
    /\ resetPc[d][j] = "gotUpdate"
    /\ Len(inflight) < MaxInflight
    /\ inflight' = Append(inflight, ResetRequest(d, "deleteAll", j))
    /\ resetPc' = [resetPc EXCEPT ![d][j] = "awaitDelete"]
    /\ UNCHANGED <<roleVars, mirrorVars, logVars, connVars, showNetworkModal,
                   connectionError, showResetView, resetInputText, presenceVars,
                   rowExists, row, dbMessages, nextId, writeFailed, queue>>

\* handleFullReset after the delete's response (lines 326-331).
ResetFinish(d, j) ==
    /\ resetPc[d][j] = "gotDelete"
    /\ ResetLocal(d)
    /\ resetPc' = [resetPc EXCEPT ![d][j] = "idle"]
    /\ UNCHANGED <<roleVars, capacity, wifiSSID, wifiPass, inputText, connVars,
                   connectionError, presenceVars, backendVars, queue>>

\* A program step: the inputs of the function-level specifications rest.
Framed(A) == A /\ UNCHANGED inputVars

\* ------------------------------------------- specification: presence
\* Devices connect, disconnect, reload and change roles; the counters rest.
\* The user presses CONNECT DATABASE only while no earlier attempt of the
\* device is still running, and picks among RoleInputs.
Quiet(d) == \A k \in Slots : attempt[d][k] = "idle"
RoleInputs == {"COORDINATOR", "MERCH", "BEER"}
Credentials == {"empty", "invalid", "valid"}

NextPresence ==
    \/ \E d \in Devices, k \in Slots, ok \in BOOLEAN :
           Framed(ServeStateSelect(d, k, ok))
    \/ \E d \in Devices, k \in Slots :
           Framed(FetchState(d, k))
    \/ \E d \in Devices, k \in Slots, ok \in BOOLEAN :
           Framed(ServeMessagesSelect(d, k, ok))
    \/ \E d \in Devices, k \in Slots :
           Framed(FetchMessages(d, k))
    \/ \E d \in Devices, k \in Slots :
           Framed(Subscribed(d, k))
    \/ \E d \in Devices, k \in Slots :
           Framed(SubscribeError(d, k))
    \/ \E d \in Devices, cred \in Credentials :
           Framed(Quiet(d) /\ ConnectToSupabase(d, cred))
    \/ \E d \in Devices :
           Framed(OpenNetworkModal(d))
    \/ \E d \in Devices :
           Framed(CloseNetworkModal(d))
    \/ \E d \in Devices :
           Framed(ShowResetView(d))
    \/ \E d \in Devices :
           Framed(Disconnect(d))
    \/ \E d \in Devices :
           Framed(Reload(d))
    \/ \E d \in Devices, role \in RoleInputs :
           Framed(handleRoleSelect(d, role))
    \/ \E d \in Devices :
           Framed(handleRelease(d))
    \/ \E d \in Devices, k \in Slots :
           Framed(PresenceSync(d, k))

SpecPresence == Init /\ [][NextPresence]_vars

\* -------------------------------------------- specification: counters
\* Both devices connect and disconnect; device 1 edits the counter and the
\* capacity and resets the event, pressing CONFIRM only while no earlier
\* reset of the device is in progress; requests commit or fail; notifications
\* are handled in commit order.  Roles rest.
Editors == {1}
CapacityInputs == {"0"}
ResetTexts == {"RESET"}

NextCounter ==
    \/ \E d \in Devices, k \in Slots, ok \in BOOLEAN :
           Framed(ServeStateSelect(d, k, ok))
    \/ \E d \in Devices, k \in Slots :
           Framed(FetchState(d, k))
    \/ \E d \in Devices, k \in Slots :
           Framed(ServeMessagesSelect(d, k, TRUE))
    \/ \E d \in Devices, k \in Slots :
           Framed(FetchMessages(d, k))
    \/ \E d \in Devices, k \in Slots :
           Framed(Subscribed(d, k))
    \/ \E d \in Devices :
           Framed(Quiet(d) /\ ConnectToSupabase(d, "valid"))
    \/ \E d \in Devices :
           Framed(Disconnect(d))
    \/ \E d \in Editors, delta \in {1, -1} :
           Framed(doorCount[d] + delta <= MaxDoor /\ handleDoorChange(d, delta))
    \/ \E d \in Editors, text \in CapacityInputs :
           Framed(handleCapacityChange(d, text))
    \/ \E i \in 1..MaxInflight :
           Framed(CommitWrite(i))
    \/ \E i \in 1..MaxInflight :
           Framed(FailWrite(i))
    \/ \E d \in Devices, k \in Slots :
           Framed(OnEventStateUpdate(d, k))
    \/ \E d \in Editors :
           Framed(ShowResetView(d))
    \/ \E d \in Editors, text \in ResetTexts :
           Framed(SetResetInputText(d, text))
    \/ \E d \in Editors :
           Framed(ResetQuiet(d) /\ handleFullReset(d))
    \/ \E d \in Editors, j \in ResetCalls :
           Framed(ResetDeleteMessages(d, j))
    \/ \E d \in Editors, j \in ResetCalls :
           Framed(ResetFinish(d, j))

InitCounter == Init /\ rowExists
SpecCounter == InitCounter /\ [][NextCounter]_vars

\* ------------------------------------- specification: counter range
\* Device 1 edits the counter and the capacity, resets the event (one reset
\* at a time), disconnects and connects again; device 2 goes through its
\* mount connect and receives the notifications.  Every request is answered.
NextRange ==
    \/ \E d \in Devices, k \in Slots :
           Framed(ServeStateSelect(d, k, TRUE))
    \/ \E d \in Devices, k \in Slots :
           Framed(FetchState(d, k))
    \/ \E d \in Devices, k \in Slots :
           Framed(ServeMessagesSelect(d, k, TRUE))
    \/ \E d \in Devices, k \in Slots :
           Framed(FetchMessages(d, k))
    \/ \E d \in Devices, k \in Slots :
           Framed(Subscribed(d, k))
    \/ \E d \in Editors :
           Framed(Quiet(d) /\ ConnectToSupabase(d, "valid"))
    \/ \E d \in Editors :
           Framed(Disconnect(d))
    \/ \E d \in Editors, delta \in {1, -1} :
           Framed(doorCount[d] + delta <= MaxDoor /\ handleDoorChange(d, delta))
    \/ \E d \in Editors, text \in CapacityInputs :
           Framed(handleCapacityChange(d, text))
    \/ \E i \in 1..MaxInflight :
           Framed(CommitWrite(i))
    \/ \E d \in Devices, k \in Slots :
           Framed(OnEventStateUpdate(d, k))
    \/ \E d \in Editors :
           Framed(ShowResetView(d))
    \/ \E d \in Editors, text \in ResetTexts :
           Framed(SetResetInputText(d, text))
    \/ \E d \in Editors :
           Framed(ResetQuiet(d) /\ handleFullReset(d))
    \/ \E d \in Editors, j \in ResetCalls :
           Framed(ResetDeleteMessages(d, j))
    \/ \E d \in Editors, j \in ResetCalls :
           Framed(ResetFinish(d, j))

SpecRange == InitCounter /\ [][NextRange]_vars

\* ------------------------------------- specification: failed writes
\* Both devices connect and disconnect; device 1 edits the counter and the
\* capacity; requests commit or fail; notifications are handled in commit
\* order.  Nobody resets the event.
NextOptimistic ==
    \/ \E d \in Devices, k \in Slots, ok \in BOOLEAN :
           Framed(ServeStateSelect(d, k, ok))
    \/ \E d \in Devices, k \in Slots :
           Framed(FetchState(d, k))
    \/ \E d \in Devices, k \in Slots :
           Framed(ServeMessagesSelect(d, k, TRUE))
    \/ \E d \in Devices, k \in Slots :
           Framed(FetchMessages(d, k))
    \/ \E d \in Devices, k \in Slots :
           Framed(Subscribed(d, k))
    \/ \E d \in Devices :
           Framed(Quiet(d) /\ ConnectToSupabase(d, "valid"))
    \/ \E d \in Devices :
           Framed(Disconnect(d))
    \/ \E d \in Editors, delta \in {1, -1} :
           Framed(doorCount[d] + delta <= MaxDoor /\ handleDoorChange(d, delta))
    \/ \E d \in Editors, text \in CapacityInputs :
           Framed(handleCapacityChange(d, text))
    \/ \E i \in 1..MaxInflight :
           Framed(CommitWrite(i))
    \/ \E i \in 1..MaxInflight :
           Framed(FailWrite(i))
    \/ \E d \in Devices, k \in Slots :
           Framed(OnEventStateUpdate(d, k))

SpecOptimistic == InitCounter /\ [][NextOptimistic]_vars

\* -------------------------------------------- specification: message log
\* Device 1 has restored the role MERCH from localStorage and sends messages;
\* its user may press CONNECT DATABASE while the mount connect is still in
\* progress.  Device 2 connects, receives and resets the event (one reset
\* at a time).  The backend gives every inserted row a new id (nextId) and
\* never reuses one, whether the row is still stored or a reset deleted it.
\* IdsIssuedOrPending counts the ids issued so far and the inserts on their
\* way; the specifications let a message be sent only while that count is
\* below MaxMessages, which keeps the id counter bounded (a failed insert
\* takes no id and is not counted).
Senders == {1}
Resetters == {2}
MessageTexts == {"hi", " "}
IdsIssuedOrPending ==
    (nextId - 1) + Cardinality({i \in 1..Len(inflight) : inflight[i].op = "insert"})

InitLog ==
    /\ Mounted([d \in Devices |-> IF d \in Senders THEN "MERCH" ELSE ""])
    /\ InitRoom /\ InitBackend /\ rowExists /\ NoInputs

NextLog ==
    \/ \E d \in Devices, k \in Slots :
           Framed(ServeStateSelect(d, k, TRUE))
    \/ \E d \in Devices, k \in Slots :
           Framed(FetchState(d, k))
    \/ \E d \in Devices, k \in Slots, ok \in BOOLEAN :
           Framed(ServeMessagesSelect(d, k, ok))
    \/ \E d \in Devices, k \in Slots :
           Framed(FetchMessages(d, k))
    \/ \E d \in Devices, k \in Slots :
           Framed(Subscribed(d, k))
    \/ \E d \in Senders :
           Framed(ConnectToSupabase(d, "valid"))
    \/ \E d \in Resetters :
           Framed(Quiet(d) /\ ConnectToSupabase(d, "valid"))
    \/ \E d \in Devices :
           Framed(Disconnect(d))
    \/ \E d \in Senders, text \in MessageTexts :
           Framed(SetInputText(d, text))
    \/ \E d \in Senders :
           Framed(IdsIssuedOrPending < MaxMessages /\ handleSendMessage(d, 19, 5))
    \/ \E i \in 1..MaxInflight :
           Framed(CommitWrite(i))
    \/ \E i \in 1..MaxInflight :
           Framed(FailWrite(i))
    \/ \E d \in Devices, k \in Slots :
           Framed(OnMessageInsert(d, k))
    \/ \E d \in Devices, k \in Slots :
           Framed(OnEventStateUpdate(d, k))
    \/ \E d \in Resetters :
           Framed(ShowResetView(d))
    \/ \E d \in Resetters, text \in ResetTexts :
           Framed(SetResetInputText(d, text))
    \/ \E d \in Resetters :
           Framed(ResetQuiet(d) /\ handleFullReset(d))
    \/ \E d \in Resetters, j \in ResetCalls :
           Framed(ResetDeleteMessages(d, j))
    \/ \E d \in Resetters, j \in ResetCalls :
           Framed(ResetFinish(d, j))

SpecLog == InitLog /\ [][NextLog]_vars

\* ------------------------------------- specification: joining the log
\* Device 1 has restored the role MERCH and sends messages; device 2 connects
\* while they are sent, and resets the event (one reset at a time).  Every
\* fetch is answered and a device starts a connect only when no earlier one
\* of its own is running.
NextJoin ==
    \/ \E d \in Devices, k \in Slots :
           Framed(ServeStateSelect(d, k, TRUE))
    \/ \E d \in Devices, k \in Slots :
           Framed(FetchState(d, k))
    \/ \E d \in Devices, k \in Slots :
           Framed(ServeMessagesSelect(d, k, TRUE))
    \/ \E d \in Devices, k \in Slots :
           Framed(FetchMessages(d, k))
    \/ \E d \in Devices, k \in Slots :
           Framed(Subscribed(d, k))
    \/ \E d \in Devices :
           Framed(Quiet(d) /\ ConnectToSupabase(d, "valid"))
    \/ \E d \in Devices :
           Framed(Disconnect(d))
    \/ \E d \in Senders, text \in MessageTexts :
           Framed(SetInputText(d, text))
    \/ \E d \in Senders :
           Framed(IdsIssuedOrPending < MaxMessages /\ handleSendMessage(d, 19, 5))
    \/ \E i \in 1..MaxInflight :
           Framed(CommitWrite(i))
    \/ \E i \in 1..MaxInflight :
           Framed(FailWrite(i))
    \/ \E d \in Devices, k \in Slots :
           Framed(OnMessageInsert(d, k))
    \/ \E d \in Devices, k \in Slots :
           Framed(OnEventStateUpdate(d, k))
    \/ \E d \in Resetters :
           Framed(ShowResetView(d))
    \/ \E d \in Resetters, text \in ResetTexts :
           Framed(SetResetInputText(d, text))
    \/ \E d \in Resetters :
           Framed(ResetQuiet(d) /\ handleFullReset(d))
    \/ \E d \in Resetters, j \in ResetCalls :
           Framed(ResetDeleteMessages(d, j))
    \/ \E d \in Resetters, j \in ResetCalls :
           Framed(ResetFinish(d, j))

SpecJoin == InitLog /\ [][NextJoin]_vars

\* ------------------------------------------ specification: senders
\* Device 1 connects, takes and releases roles, clicks station cards, types
\* into the message box and sends, connected or not, while fewer than
\* MaxMessages messages are stored or on their way; the page may be reloaded;
\* requests commit or fail and the INSERT notifications are handled.
StationClicks == {"BEER", "TICKETS"}
TypedTexts == {"hi", " ", " hi "}

NextSend ==
    \/ \E d \in Senders, k \in Slots :
           Framed(ServeStateSelect(d, k, TRUE))
    \/ \E d \in Senders, k \in Slots :
           Framed(FetchState(d, k))
    \/ \E d \in Senders, k \in Slots :
           Framed(ServeMessagesSelect(d, k, TRUE))
    \/ \E d \in Senders, k \in Slots :
           Framed(FetchMessages(d, k))
    \/ \E d \in Senders, k \in Slots :
           Framed(Subscribed(d, k))
    \/ \E d \in Senders :
           Framed(Reload(d))
    \/ \E d \in Senders, role \in RoleInputs :
           Framed(handleRoleSelect(d, role))
    \/ \E d \in Senders :
           Framed(handleRelease(d))
    \/ \E d \in Senders, station \in StationClicks :
           Framed(handleStationClick(d, station))
    \/ \E d \in Senders :
           Framed(ClearStation(d))
    \/ \E d \in Senders, text \in TypedTexts :
           Framed(SetInputText(d, text))
    \/ \E d \in Senders :
           Framed(IdsIssuedOrPending < MaxMessages /\ handleSendMessage(d, 19, 5))
    \/ \E i \in 1..MaxInflight :
           Framed(CommitWrite(i))
    \/ \E i \in 1..MaxInflight :
           Framed(FailWrite(i))
    \/ \E d \in Senders, k \in Slots :
           Framed(OnMessageInsert(d, k))

SpecSend == InitCounter /\ [][NextSend]_vars

\* ------------------------------------ specification: stale channels
\* Device 1 edits the counter and sends messages.  Device 2 only observes:
\* it connects and disconnects, and its user may press CONNECT DATABASE while
\* an earlier connect of the device is still in progress.
Observers == {2}

NextStale ==
    \/ \E d \in Devices, k \in Slots :
           Framed(ServeStateSelect(d, k, TRUE))
    \/ \E d \in Devices, k \in Slots :
           Framed(FetchState(d, k))
    \/ \E d \in Devices, k \in Slots :
           Framed(ServeMessagesSelect(d, k, TRUE))
    \/ \E d \in Devices, k \in Slots :
           Framed(FetchMessages(d, k))
    \/ \E d \in Devices, k \in Slots :
           Framed(Subscribed(d, k))
    \/ \E d \in Observers :
           Framed(ConnectToSupabase(d, "valid"))
    \/ \E d \in Observers :
           Framed(Disconnect(d))
    \/ \E d \in Editors, delta \in {1, -1} :
           Framed(doorCount[d] + delta <= MaxDoor /\ handleDoorChange(d, delta))
    \/ \E d \in Senders, text \in MessageTexts :
           Framed(SetInputText(d, text))
    \/ \E d \in Senders :
           Framed(IdsIssuedOrPending < MaxMessages /\ handleSendMessage(d, 19, 5))
    \/ \E i \in 1..MaxInflight :
           Framed(CommitWrite(i))
    \/ \E i \in 1..MaxInflight :
           Framed(FailWrite(i))
    \/ \E d \in Devices, k \in Slots :
           Framed(OnEventStateUpdate(d, k))
    \/ \E d \in Devices, k \in Slots :
           Framed(OnMessageInsert(d, k))

SpecStale == InitLog /\ [][NextStale]_vars

\* --------------------------------------- specification: racing edits
\* Both devices connect to a backend whose row holds some door_count; once
\* both are subscribed each presses + once; the requests commit or fail and the
\* notifications are handled.  `observed` records the doorCount each device
\* saw when it pressed (UNDEF before the press).
StartCounts == {0, 3, 41}

InitRace ==
    /\ InitDevices /\ InitRoom /\ NoInputs
    /\ rowExists = TRUE
    /\ \E v \in StartCounts :
          row = [door_count |-> v, capacity |-> DefaultCapacity,
                 wifi_ssid |-> "", wifi_pass |-> ""]
    /\ dbMessages = <<>>
    /\ nextId = 1
    /\ inflight = <<>>
    /\ writeFailed = FALSE

PressOnce(d) ==
    /\ \A e \in Devices : isConnected[e] /\ supabaseClient[e] # 0
    /\ observed[d] = UNDEF
    /\ handleDoorChange(d, 1)
    /\ observed' = [observed EXCEPT ![d] = doorCount[d]]
    /\ UNCHANGED <<deltas, applied, payload, before, afterFirst, handled>>

NextRace ==
    \/ \E d \in Devices, k \in Slots :
           Framed(ServeStateSelect(d, k, TRUE))
    \/ \E d \in Devices, k \in Slots :
           Framed(FetchState(d, k))
    \/ \E d \in Devices, k \in Slots :
           Framed(ServeMessagesSelect(d, k, TRUE))
    \/ \E d \in Devices, k \in Slots :
           Framed(FetchMessages(d, k))
    \/ \E d \in Devices, k \in Slots :
           Framed(Subscribed(d, k))
    \/ \E d \in Devices :
           PressOnce(d)
    \/ \E i \in 1..MaxInflight :
           Framed(CommitWrite(i))
    \/ \E i \in 1..MaxInflight :
           Framed(FailWrite(i))
    \/ \E d \in Devices, k \in Slots :
           Framed(OnEventStateUpdate(d, k))

SpecRace == InitRace /\ [][NextRace]_vars

\* ------------------------------------------ specification: venue WiFi
\* Both devices connect and disconnect; device 1 types the venue's WiFi
\* settings into the modal and leaves the fields (handleWifiSave), connected
\* or not; requests commit or fail and the notifications are handled.
WifiNames == {"", "venue"}
WifiPasswords == {"", "secret"}

NextWifi ==
    \/ \E d \in Devices, k \in Slots :
           Framed(ServeStateSelect(d, k, TRUE))
    \/ \E d \in Devices, k \in Slots :
           Framed(FetchState(d, k))
    \/ \E d \in Devices, k \in Slots :
           Framed(ServeMessagesSelect(d, k, TRUE))
    \/ \E d \in Devices, k \in Slots :
           Framed(FetchMessages(d, k))
    \/ \E d \in Devices, k \in Slots :
           Framed(Subscribed(d, k))
    \/ \E d \in Devices :
           Framed(Quiet(d) /\ ConnectToSupabase(d, "valid"))
    \/ \E d \in Devices :
           Framed(Disconnect(d))
    \/ \E d \in Editors, text \in WifiNames :
           Framed(SetWifiSSID(d, text))
    \/ \E d \in Editors, text \in WifiPasswords :
           Framed(SetWifiPass(d, text))
    \/ \E d \in Editors :
           Framed(handleWifiSave(d))
    \/ \E i \in 1..MaxInflight :
           Framed(CommitWrite(i))
    \/ \E i \in 1..MaxInflight :
           Framed(FailWrite(i))
    \/ \E d \in Devices, k \in Slots :
           Framed(OnEventStateUpdate(d, k))

SpecWifi == InitCounter /\ [][NextWifi]_vars

\* ------------------------------------------ specification: hydration
\* The backend holds some stored messages and some event_state row when the
\* devices mount; they connect, disconnect and connect again, and every
\* fetch is answered.  Nothing is written.
StoredMessage(i) ==
    [id |-> i, time |-> TimeStr(19, 5), station |-> "MERCH", text |-> "hi"]
RowInputs ==
    [door_count : {0, 29, 42}, capacity : {1, 200, DefaultCapacity},
     wifi_ssid : {"", "guest"}, wifi_pass : {""}]

InitHydrate ==
    /\ InitDevices /\ InitRoom /\ NoInputs
    /\ rowExists \in BOOLEAN
    /\ row \in RowInputs
    /\ \E n \in {0, 1, FetchLimit - 1, FetchLimit} \cup (FetchLimit + 1)..MaxStored :
          /\ dbMessages = [i \in 1..n |-> StoredMessage(i)]
          /\ nextId = n + 1
    /\ inflight = <<>>
    /\ writeFailed = FALSE

NextHydrate ==
    \/ \E d \in Devices, k \in Slots :
           Framed(ServeStateSelect(d, k, TRUE))
    \/ \E d \in Devices, k \in Slots :
           Framed(FetchState(d, k))
    \/ \E d \in Devices, k \in Slots :
           Framed(ServeMessagesSelect(d, k, TRUE))
    \/ \E d \in Devices, k \in Slots :
           Framed(FetchMessages(d, k))
    \/ \E d \in Devices, k \in Slots :
           Framed(Subscribed(d, k))
    \/ \E d \in Devices :
           Framed(Quiet(d) /\ ConnectToSupabase(d, "valid"))
    \/ \E d \in Devices :
           Framed(Disconnect(d))

SpecHydrate == InitHydrate /\ [][NextHydrate]_vars

\* ------------------------------------- specification: no snapshot row
\* The backend has no event_state row.  Device 1 edits the counter and the
\* capacity, connected or not; both devices connect and disconnect.
NextAbsent ==
    \/ \E d \in Devices, k \in Slots :
           Framed(ServeStateSelect(d, k, TRUE))
    \/ \E d \in Devices, k \in Slots :
           Framed(FetchState(d, k))
    \/ \E d \in Devices, k \in Slots :
           Framed(ServeMessagesSelect(d, k, TRUE))
    \/ \E d \in Devices, k \in Slots :
           Framed(FetchMessages(d, k))
    \/ \E d \in Devices, k \in Slots :
           Framed(Subscribed(d, k))
    \/ \E d \in Devices :
           Framed(Quiet(d) /\ ConnectToSupabase(d, "valid"))
    \/ \E d \in Devices :
           Framed(Disconnect(d))
    \/ \E d \in Editors, delta \in {1, -1} :
           Framed(doorCount[d] + delta <= MaxDoor /\ handleDoorChange(d, delta))
    \/ \E d \in Editors, text \in CapacityInputs :
           Framed(handleCapacityChange(d, text))
    \/ \E i \in 1..MaxInflight :
           Framed(CommitWrite(i))
    \/ \E i \in 1..MaxInflight :
           Framed(FailWrite(i))

InitAbsent == Init /\ ~rowExists
SpecAbsent == InitAbsent /\ [][NextAbsent]_vars

\* ------------------------------------------- specification: full reset
\* The backend holds door_count 1 and two messages.  Device 1 connects and
\* disconnects, opens and closes the modal and the reset view, types a
\* confirmation text and invokes
\* handleFullReset at most MaxResets times, with whatever text the field
\* holds and whether or not an earlier call is still in progress; its
\* requests commit or fail.  `applied` counts the invocations.
ConfirmTexts == {"RSET", "RESET"}

InitReset ==
    /\ InitDevices /\ InitRoom /\ NoInputs
    /\ rowExists = TRUE
    /\ row = [door_count |-> 1, capacity |-> DefaultCapacity,
              wifi_ssid |-> "", wifi_pass |-> ""]
    /\ dbMessages = [i \in 1..2 |-> StoredMessage(i)]
    /\ nextId = 3
    /\ inflight = <<>>
    /\ writeFailed = FALSE

InvokeReset ==
    /\ applied < MaxResets
    /\ handleFullReset(1)
    /\ applied' = applied + 1
    /\ UNCHANGED <<deltas, payload, before, afterFirst, handled, observed>>

NextReset ==
    \/ \E d \in Editors, k \in Slots :
           Framed(ServeStateSelect(d, k, TRUE))
    \/ \E d \in Editors, k \in Slots :
           Framed(FetchState(d, k))
    \/ \E d \in Editors, k \in Slots :
           Framed(ServeMessagesSelect(d, k, TRUE))
    \/ \E d \in Editors, k \in Slots :
           Framed(FetchMessages(d, k))
    \/ \E d \in Editors, k \in Slots :
           Framed(Subscribed(d, k))
    \/ \E d \in Editors :
           Framed(Quiet(d) /\ ConnectToSupabase(d, "valid"))
    \/ \E d \in Editors :
           Framed(Disconnect(d))
    \/ \E d \in Editors :
           Framed(OpenNetworkModal(d))
    \/ \E d \in Editors :
           Framed(CloseNetworkModal(d))
    \/ \E d \in Editors :
           Framed(ShowResetView(d))
    \/ \E d \in Editors :
           Framed(CancelReset(d))
    \/ \E d \in Editors, text \in ConfirmTexts :
           Framed(SetResetInputText(d, text))
    \/ InvokeReset
    \/ \E d \in Editors, j \in ResetCalls :
           Framed(ResetDeleteMessages(d, j))
    \/ \E d \in Editors, j \in ResetCalls :
           Framed(ResetFinish(d, j))
    \/ \E i \in 1..MaxInflight :
           Framed(CommitWrite(i))
    \/ \E i \in 1..MaxInflight :
           Framed(FailWrite(i))
    \/ \E d \in Editors, k \in Slots :
           Framed(OnEventStateUpdate(d, k))

SpecReset == InitReset /\ [][NextReset]_vars

\* ----------------------------------------- specification: over capacity
\* Device 1 types a small capacity and presses + at most MaxPresses times and
\* - at will, connected or not; its requests commit or fail and its
\* notifications are handled.  `applied` counts the presses of +.
SmallCapacities == {"1", "2"}

PressPlus ==
    /\ applied < MaxPresses
    /\ handleDoorChange(1, 1)
    /\ applied' = applied + 1
    /\ UNCHANGED <<deltas, payload, before, afterFirst, handled, observed>>

NextOver ==
    \/ \E d \in Editors, k \in Slots :
           Framed(ServeStateSelect(d, k, TRUE))
    \/ \E d \in Editors, k \in Slots :
           Framed(FetchState(d, k))
    \/ \E d \in Editors, k \in Slots :
           Framed(ServeMessagesSelect(d, k, TRUE))
    \/ \E d \in Editors, k \in Slots :
           Framed(FetchMessages(d, k))
    \/ \E d \in Editors, k \in Slots :
           Framed(Subscribed(d, k))
    \/ \E d \in Editors, text \in SmallCapacities :
           Framed(handleCapacityChange(d, text))
    \/ PressPlus
    \/ \E d \in Editors :
           Framed(handleDoorChange(d, -1))
    \/ \E i \in 1..MaxInflight :
           Framed(CommitWrite(i))
    \/ \E i \in 1..MaxInflight :
           Framed(FailWrite(i))
    \/ \E d \in Editors, k \in Slots :
           Framed(OnEventStateUpdate(d, k))

SpecOver == InitCounter /\ [][NextOver]_vars

\* ------------------------------------ specification: door-count deltas
\* handleDoorChange applied to a sequence of deltas on device 1, from the
\* state after mount (doorCount 0) and with no notification in between.
DeltaSeqs == UNION {[1..n -> {1, -1}] : n \in 0..MaxDeltas}

InitDoorSeq ==
    /\ InitDevices /\ InitRoom /\ InitBackend /\ rowExists
    /\ deltas \in DeltaSeqs
    /\ applied = 0
    /\ payload = [door_count |-> 0, capacity |-> 1, wifi_ssid |-> "", wifi_pass |-> ""]
    /\ before = Mirror(1)
    /\ afterFirst = Mirror(1)
    /\ handled = 0
    /\ observed = [d \in Devices |-> UNDEF]

ApplyDelta ==
    /\ applied < Len(deltas)
    /\ handleDoorChange(1, deltas[applied + 1])
    /\ applied' = applied + 1
    /\ UNCHANGED <<deltas, payload, before, afterFirst, handled, observed>>

SpecDoorSeq == InitDoorSeq /\ [][ApplyDelta]_vars

\* -------------------------------- specification: one update notification
\* Device 1 is subscribed with some local mirror; one event_state UPDATE
\* notification, delivered twice, is queued for its channel.  A field absent
\* from payload.new reads as undefined.
MirrorInputs ==
    [doorCount : {0, 2}, capacity : {1, DefaultCapacity},
     wifiSSID : {"", "venue"}, wifiPass : {"", "secret"}]
PayloadInputs ==
    [door_count : {UNDEF, 0, 3}, capacity : {UNDEF, 1, 250},
     wifi_ssid : {UNDEF_STR, "", "guest"}, wifi_pass : {UNDEF_STR, "", "derby"}]

InitNotify ==
    /\ operatorName = [d \in Devices |-> ""]
    /\ selectedStation = [d \in Devices |-> ""]
    /\ derby_role = [d \in Devices |-> ""]
    /\ \E m \in MirrorInputs :
          /\ doorCount = [d \in Devices |-> IF d = 1 THEN m.doorCount ELSE 0]
          /\ capacity = [d \in Devices |-> IF d = 1 THEN m.capacity ELSE DefaultCapacity]
          /\ wifiSSID = [d \in Devices |-> IF d = 1 THEN m.wifiSSID ELSE ""]
          /\ wifiPass = [d \in Devices |-> IF d = 1 THEN m.wifiPass ELSE ""]
    /\ messages = [d \in Devices |-> <<>>]
    /\ supabaseClient = [d \in Devices |-> IF d = 1 THEN 1 ELSE 0]
    /\ channel = [d \in Devices |-> IF d = 1 THEN 1 ELSE 0]
    /\ isConnected = [d \in Devices |-> d = 1]
    /\ showNetworkModal = [d \in Devices |-> FALSE]
    /\ connectionError = [d \in Devices |-> ""]
    /\ otherCoordinatorOnline = [d \in Devices |-> FALSE]
    /\ showResetView = [d \in Devices |-> FALSE]
    /\ resetInputText = [d \in Devices |-> ""]
    /\ inputText = [d \in Devices |-> ""]
    /\ resetPc = [d \in Devices |-> [j \in ResetCalls |-> "idle"]]
    /\ attempt = [d \in Devices |->
                    IF d = 1 THEN [k \in Slots |-> IF k = 1 THEN "live" ELSE "idle"]
                    ELSE FreshAttempts]
    /\ stateData = [d \in Devices |-> [k \in Slots |-> NULL_STATE]]
    /\ msgData = [d \in Devices |-> [k \in Slots |-> NULL_MSGS]]
    /\ members = [c \in Channels |-> IF c = <<1, 1>> THEN "" ELSE NO_RECORD]
    /\ syncPending = [c \in Channels |-> FALSE]
    /\ InitBackend /\ rowExists
    /\ payload \in PayloadInputs
    /\ queue = [c \in Channels |->
                  IF c = <<1, 1>>
                  THEN <<[type |-> "UPDATE", new |-> payload],
                         [type |-> "UPDATE", new |-> payload]>>
                  ELSE <<>>]
    /\ deltas = <<>>
    /\ applied = 0
    /\ before = Mirror(1)
    /\ afterFirst = Mirror(1)
    /\ handled = 0
    /\ observed = [d \in Devices |-> UNDEF]

HandleNotification ==
    /\ OnEventStateUpdate(1, 1)
    /\ handled' = handled + 1
    /\ before' = IF handled = 0 THEN Mirror(1) ELSE before
    /\ afterFirst' = IF handled = 0
                     THEN [doorCount |-> doorCount'[1], capacity |-> capacity'[1],
                           wifiSSID |-> wifiSSID'[1], wifiPass |-> wifiPass'[1]]
                     ELSE afterFirst
    /\ UNCHANGED <<deltas, applied, payload, observed>>

SpecNotify == InitNotify /\ [][HandleNotification]_vars

\* ============================================================ claims
\* The channel a device holds in state, and whether it has handled every
\* presence sync sent to it.
Chan(d) == <<d, channel[d]>>
Synced(d) == channel[d] # 0 /\ Live(Chan(d)) /\ ~syncPending[Chan(d)]
OtherBcRecord(state, d) == \E c \in Channels : c[1] # d /\ state[c] = BC_ROLE
HandlesSync(d, k) ==
    /\ Live(<<d, k>>) /\ syncPending[<<d, k>>]
    /\ attempt'[d][k] = "live" /\ ~syncPending'[<<d, k>>]

\* C1: after a device handles a presence sync, otherCoordinatorOnline is true
\* if and only if the membership map holds a record of another device whose
\* role is "Bout Coordinator".
C1_SyncFlagIffOtherCoordinator ==
    [][\A d \in Devices, k \in Slots :
          HandlesSync(d, k) =>
              (otherCoordinatorOnline'[d] <=> OtherBcRecord(members', d))]_vars

\* C2: when A has claimed and announced the coordinator role and B is
\* connected, has not claimed it and has handled the syncs sent to it, B has
\* otherCoordinatorOnline set, that is its coordinator option is disabled
\* (line 440), for as long as A stays coordinator.
C2_ObserverSeesCoordinator ==
    \A a \in Devices, b \in Devices :
        ( /\ a # b
          /\ isConnected[a] /\ channel[a] # 0
          /\ operatorName[a] = BC_ROLE /\ members[Chan(a)] = BC_ROLE
          /\ isConnected[b] /\ operatorName[b] # BC_ROLE
          /\ Synced(b) )
        => otherCoordinatorOnline[b]

\* C3: a device does not become a connected coordinator when another device's
\* coordinator announcement has reached it: not by claiming the role after
\* handling the sync that carries the announcement, and not by connecting
\* with a restored role while the announcement is in the room.  (Two devices
\* that both claim before either handled the other's sync are the allowed race.)
C3_AtMostOneCoordinator ==
    [][\A d \in Devices :
          ( /\ ~(isConnected[d] /\ operatorName[d] = BC_ROLE)
            /\ isConnected'[d] /\ operatorName'[d] = BC_ROLE
            /\ OtherBcRecord(members, d) )
          => (isConnected[d] /\ ~Synced(d))]_vars

\* C4: a device's own record never sets its flag: when the device has
\* announced the coordinator role, no other device's record has it, and the
\* device has handled its syncs, otherCoordinatorOnline is false.
C4_OwnRecordIgnored ==
    \A d \in Devices :
        ( /\ Synced(d)
          /\ members[Chan(d)] = BC_ROLE
          /\ ~OtherBcRecord(members, d) )
        => ~otherCoordinatorOnline[d]

C4_Witness ==
    \E d \in Devices :
        /\ Synced(d) /\ isConnected[d]
        /\ operatorName[d] = BC_ROLE /\ members[Chan(d)] = BC_ROLE
        /\ ~OtherBcRecord(members, d)
        /\ \E e \in Devices : e # d /\ Synced(e) /\ members[Chan(e)] = "MERCH"
        /\ ~otherCoordinatorOnline[d]

\* Running total of the first n deltas, and the lowest running total over
\* the prefixes of length 0..n (never above 0).
RECURSIVE SumTo(_)
SumTo(n) == IF n = 0 THEN 0 ELSE SumTo(n - 1) + deltas[n]
RECURSIVE MinPrefixTo(_)
MinPrefixTo(n) ==
    IF n = 0 THEN 0
    ELSE IF SumTo(n) < MinPrefixTo(n - 1) THEN SumTo(n) ELSE MinPrefixTo(n - 1)

\* C5 as stated: after the deltas applied so far, the local doorCount is
\* max(0, sum of the deltas).
C5_MaxOfSum == doorCount[1] = Max(0, SumTo(applied))

\* C5 as amended: the local doorCount is the sum of the deltas applied so
\* far minus the lowest running total reached (0 when the running total never
\* went below 0): the floor is applied at every step, not to the sum.
C5_ClampedRunningTotal ==
    doorCount[1] = SumTo(applied) - MinPrefixTo(applied)

C5_Witness ==
    /\ applied = Len(deltas) /\ applied >= 3
    /\ MinPrefixTo(applied) < 0
    /\ doorCount[1] > Max(0, SumTo(applied))

\* C6: on every device and at the backend doorCount is >= 0 and capacity is
\* >= 1, in the requests in flight as well, and the capacity field yields a
\* capacity >= 1 for every text typed into it.
CapacityTexts == {"", "abc", "-3", "0", "1", "2"}
C6_CountersInRange ==
    /\ \A d \in Devices : doorCount[d] >= 0 /\ capacity[d] >= 1
    /\ row.door_count >= 0 /\ row.capacity >= 1
    /\ \A i \in 1..Len(inflight) :
          /\ inflight[i].op = "door" => inflight[i].val >= 0
          /\ inflight[i].op = "cap" => inflight[i].val >= 1
    /\ \A text \in CapacityTexts : CapacityFromInput(text) >= 1

C6_Witness ==
    /\ row.capacity = 1 /\ row.door_count = 0
    /\ \A d \in Devices : isConnected[d] /\ capacity[d] = 1 /\ doorCount[d] = 0
    /\ resetInputText[1] = "" /\ ResetQuiet(1)
    /\ inflight = <<>> /\ \A c \in Channels : queue[c] = <<>>

\* C7: after an update notification is handled, each mirrored field holds the
\* payload's value when the payload has the field and its earlier value when
\* the payload lacks it.
LastWriterWins(m, p) ==
    [doorCount |-> IF p.door_count # UNDEF THEN p.door_count ELSE m.doorCount,
     capacity |-> IF p.capacity # UNDEF THEN p.capacity ELSE m.capacity,
     wifiSSID |-> IF p.wifi_ssid # UNDEF_STR THEN p.wifi_ssid ELSE m.wifiSSID,
     wifiPass |-> IF p.wifi_pass # UNDEF_STR THEN p.wifi_pass ELSE m.wifiPass]
C7_PresentFieldsOverwrite ==
    handled >= 1 => afterFirst = LastWriterWins(before, payload)

\* C8: handling the same update notification a second time leaves the local
\* mirror as the first handling left it.
C8_NotificationIdempotent == handled = 2 => Mirror(1) = afterFirst

C8_Witness ==
    /\ handled = 2
    /\ afterFirst # before
    /\ payload.door_count = 3 /\ before.doorCount = 2
    /\ payload.wifi_ssid = UNDEF_STR
    /\ Mirror(1) = afterFirst

\* C9: a counter or capacity request is issued with the value the local
\* mirror already holds, and a step in which a request ends without being
\* written (it failed) changes no local state of any device.
LocalState ==
    <<roleVars, mirrorVars, logVars, connVars, showNetworkModal, connectionError,
      showResetView, resetInputText, otherCoordinatorOnline>>
C9_OptimisticNoRollback ==
    [][ /\ Len(inflight') > Len(inflight) =>
              LET w == inflight'[Len(inflight')]
              IN  /\ w.op = "door" => doorCount'[w.dev] = w.val
                  /\ w.op = "cap" => capacity'[w.dev] = w.val
        /\ ( /\ Len(inflight') < Len(inflight)
             /\ row' = row /\ queue' = queue /\ dbMessages' = dbMessages )
           => LocalState' = LocalState ]_vars

C9_Witness ==
    /\ writeFailed /\ inflight = <<>>
    /\ isConnected[1] /\ channel[1] # 0
    /\ queue[Chan(1)] = <<>>
    /\ doorCount[1] = 1 /\ row.door_count = 0

\* C10: once no request is in flight, no write has failed, no reset is in
\* progress and every notification has been handled, every connected device's
\* doorCount and capacity equal the backend row's.
C10_CountersConverge ==
    ( /\ inflight = <<>> /\ ~writeFailed
      /\ \A c \in Channels : queue[c] = <<>>
      /\ \A d \in Devices : ResetQuiet(d) )
    => \A d \in Devices :
           (isConnected[d] /\ channel[d] # 0) =>
               doorCount[d] = row.door_count /\ capacity[d] = row.capacity

\* C11: no device's message log holds two entries with the same
\* backend-assigned id.
C11_NoDuplicateIds ==
    \A d \in Devices :
        \A i, j \in 1..Len(messages[d]) :
            i # j => messages[d][i].id # messages[d][j].id

\* The step handles an INSERT notification on channel <<d, k>>.
HandlesInsert(d, k) ==
    /\ Live(<<d, k>>) /\ queue[<<d, k>>] # <<>>
    /\ Head(queue[<<d, k>>]).type = "INSERT"
    /\ queue'[<<d, k>>] = Tail(queue[<<d, k>>])
    /\ attempt'[d][k] = "live"
\* The step is the device's disconnect (lines 273-284), or the local end of
\* one of its full resets (lines 326-331).
DisconnectsOrResets(d) ==
    \/ isConnected[d] /\ ~isConnected'[d]
    \/ \E j \in ResetCalls : resetPc[d][j] = "gotDelete" /\ resetPc'[d][j] = "idle"

\* C12: handling one INSERT notification appends the new message to the log
\* and leaves the earlier entries as they were, and a step that shortens a
\* device's log is its disconnect or its full reset.
C12_AppendOnlyLog ==
    [][\A d \in Devices :
          /\ \A k \in Slots :
                HandlesInsert(d, k) =>
                    messages'[d] = Append(messages[d], Head(queue[<<d, k>>]).new)
          /\ Len(messages'[d]) < Len(messages[d]) => DisconnectsOrResets(d)]_vars

\* A connect of device d has got past its message fetch.
Fetched(d) == \E k \in Slots : attempt[d][k] \in {"joining", "live"}
\* C13: once a connect has fetched the messages, the log holds the most
\* recent min(50, n) of the n stored messages, oldest first.
C13_LogSeededWithRecent ==
    \A d \in Devices :
        Fetched(d) =>
            LET n == Len(dbMessages)
                len == Min(FetchLimit, n)
            IN  /\ Len(messages[d]) = len
                /\ \A i \in 1..len : messages[d][i] = dbMessages[n - len + i]

C13_Witness ==
    /\ Len(dbMessages) = FetchLimit + 2
    /\ isConnected[1] /\ Fetched(1)
    /\ Len(messages[1]) = FetchLimit
    /\ messages[1][1].id = 3 /\ messages[1][FetchLimit].id = FetchLimit + 2

\* A connect of device d has got past its initial fetch.
Hydrated(d) ==
    \E k \in Slots : attempt[d][k] \in {"fetchMsgs", "gotMsgs", "joining", "live"}

\* After a connect's initial fetch found the row, the local counters are the
\* row's.
HydratedCounters ==
    \A d \in Devices :
        (Hydrated(d) /\ rowExists) =>
            doorCount[d] = row.door_count /\ capacity[d] = row.capacity

\* C14: after a connect in which the snapshot row exists, the local doorCount
\* and capacity equal the row's door_count and capacity, and the displayed
\* occupancy is min(100, round(100 * doorCount / capacity)).
C14_HydratedFromSnapshot ==
    /\ HydratedCounters
    /\ \A d \in Devices :
          (Hydrated(d) /\ rowExists) =>
              occupancy(d) = Min(100, RoundHalfUp(100 * doorCount[d], capacity[d]))

\* The step is the initial fetch of a connect of device d.
FetchesState(d) ==
    \E k \in Slots : attempt[d][k] = "gotState" /\ attempt'[d][k] = "fetchMsgs"
DefaultMirror ==
    [doorCount |-> 0, capacity |-> DefaultCapacity, wifiSSID |-> "", wifiPass |-> ""]

\* C15: when a connect's initial fetch finds no row, no error is shown and
\* the local mirror holds the defaults afterwards, whatever it held before.
C15_AbsentRowGivesDefaults ==
    [][\A d \in Devices :
          (FetchesState(d) /\ ~rowExists) =>
              /\ connectionError'[d] = ""
              /\ doorCount'[d] = DefaultMirror.doorCount
              /\ capacity'[d] = DefaultMirror.capacity
              /\ wifiSSID'[d] = DefaultMirror.wifiSSID
              /\ wifiPass'[d] = DefaultMirror.wifiPass]_vars

\* C16: handleFullReset invoked with a confirmation text other than "RESET"
\* issues no request and changes no state of the device.
C16_WrongTextIsNoOp ==
    [][(applied' = applied + 1 /\ resetInputText[1] # "RESET")
          => UNCHANGED vars]_<<vars, applied>>

C16_Witness ==
    /\ applied >= 1
    /\ resetInputText[1] = "RSET"
    /\ isConnected[1] /\ showResetView[1] /\ showNetworkModal[1]
    /\ doorCount[1] = 1 /\ messages[1] # <<>>
    /\ ResetQuiet(1) /\ inflight = <<>>

\* C17: handleFullReset invoked with "RESET" issues the update that sets
\* door_count to 0; every call, whether or not another call of the device is
\* in progress, goes on to the bulk delete whatever the update's outcome, and
\* after the delete's response, whatever its outcome, sets the local
\* doorCount to 0 and empties the local log (and closes the reset view).
C17_ResetClearsCounterAndLog ==
    [][ /\ (applied' = applied + 1 /\ resetInputText[1] = "RESET")
              => \E j \in ResetCalls :
                    /\ resetPc[1][j] = "idle" /\ resetPc'[1][j] = "awaitUpdate"
                    /\ inflight' = Append(inflight, ResetRequest(1, "resetDoor", j))
                    /\ Written(row, inflight'[Len(inflight')]).door_count = 0
        /\ \A j \in ResetCalls :
              /\ resetPc[1][j] = "awaitUpdate" =>
                    resetPc'[1][j] \in {"awaitUpdate", "gotUpdate"}
              /\ resetPc[1][j] = "gotUpdate" =>
                    resetPc'[1][j] \in {"gotUpdate", "awaitDelete"}
              /\ (resetPc[1][j] = "gotUpdate" /\ resetPc'[1][j] = "awaitDelete")
                    => inflight' = Append(inflight, ResetRequest(1, "deleteAll", j))
              /\ resetPc[1][j] = "awaitDelete" =>
                    resetPc'[1][j] \in {"awaitDelete", "gotDelete"}
              /\ resetPc[1][j] = "gotDelete" =>
                    resetPc'[1][j] \in {"gotDelete", "idle"}
              /\ (resetPc[1][j] = "gotDelete" /\ resetPc'[1][j] = "idle")
                    => /\ doorCount'[1] = 0 /\ messages'[1] = <<>>
                       /\ ~showResetView'[1] /\ resetInputText'[1] = ""
                       /\ ~showNetworkModal'[1] ]_<<vars, applied>>

\* A reset has ended after its bulk delete failed: the backend still holds
\* the messages, the connected device's log is empty.
C17_Witness ==
    /\ applied >= 1 /\ writeFailed
    /\ ResetQuiet(1) /\ inflight = <<>>
    /\ isConnected[1]
    /\ doorCount[1] = 0 /\ messages[1] = <<>>
    /\ dbMessages # <<>>
    /\ resetInputText[1] = "" /\ ~showResetView[1]

\* C18: a disconnect from the subscribed state leaves the device with
\* isConnected false, no client and no channel, doorCount 0, an empty log, and
\* no value of the closed session: default capacity, empty WiFi credentials,
\* otherCoordinatorOnline false.
C18_DisconnectClearsMirrors ==
    [][\A d \in Devices :
          (isConnected[d] /\ ~isConnected'[d]) =>
              /\ supabaseClient'[d] = 0 /\ channel'[d] = 0
              /\ doorCount'[d] = 0 /\ messages'[d] = <<>>
              /\ capacity'[d] = DefaultCapacity
              /\ wifiSSID'[d] = "" /\ wifiPass'[d] = ""
              /\ ~otherCoordinatorOnline'[d]]_vars

\* The connect attempt k of device d ends in this step: subscribed, or over
\* without a subscription.
EndsSubscribed(d, k) == attempt[d][k] = "joining" /\ attempt'[d][k] = "live"
EndsUnsubscribed(d, k) == attempt[d][k] = "joining" /\ attempt'[d][k] = "idle"

\* C19: a connect attempt ends subscribed, with isConnected, a client and a
\* channel, or ends with isConnected false and an error message shown.
C19_ConnectEndsSubscribedOrError ==
    [][\A d \in Devices, k \in Slots :
          /\ EndsSubscribed(d, k) =>
                isConnected'[d] /\ supabaseClient'[d] # 0 /\ channel'[d] # 0
          /\ EndsUnsubscribed(d, k) =>
                ~isConnected'[d] /\ connectionError'[d] # ""]_vars

\* C20: a press of + adds one to the local doorCount whatever the capacity,
\* and the over-capacity flag follows the count past the capacity: the press
\* that reaches the capacity leaves the flag false, the next one sets it, and
\* after any press the flag is true exactly when the count had already
\* reached the capacity before the press.
C20_NoClampAtCapacity ==
    [][applied' = applied + 1 =>
          /\ doorCount'[1] = doorCount[1] + 1
          /\ capacity'[1] = capacity[1]
          /\ doorCount[1] = capacity[1] - 1 =>
                (doorCount'[1] = capacity'[1] /\ ~isOverCapacity(1)')
          /\ doorCount[1] = capacity[1] =>
                (doorCount'[1] = capacity'[1] + 1 /\ isOverCapacity(1)')
          /\ isOverCapacity(1)' <=> doorCount[1] >= capacity[1]]_<<vars, applied>>

C20_Witness ==
    /\ applied >= 2
    /\ capacity[1] = 2 /\ doorCount[1] = 3
    /\ isOverCapacity(1)
    /\ isConnected[1] /\ row.door_count = 3 /\ row.capacity = 2

\* s is the last Len(s) entries of t, in t's order.
IsSuffix(s, t) ==
    /\ Len(s) <= Len(t)
    /\ \A i \in 1..Len(s) : s[i] = t[Len(t) - Len(s) + i]
\* Nothing is left to happen for the log: no request in flight, no write
\* failed, no reset or connect in progress, every notification handled.
LogQuiescent ==
    /\ inflight = <<>> /\ ~writeFailed
    /\ \A c \in Channels : queue[c] = <<>>
    /\ \A d \in Devices :
          /\ ResetQuiet(d)
          /\ \A k \in Slots : attempt[d][k] \in {"idle", "live"}

\* C21: once nothing is left to happen for the log, every connected device's
\* log is the stored messages from its hydration window onward, in insertion
\* order: a suffix of the backend's table that holds at least its most recent
\* min(50, n) messages.  No message committed during the connect is missing
\* and no deleted message is left.
C21_LogsConverge ==
    LogQuiescent =>
        \A d \in Devices :
            (isConnected[d] /\ channel[d] # 0) =>
                /\ IsSuffix(messages[d], dbMessages)
                /\ Len(messages[d]) >= Min(FetchLimit, Len(dbMessages))

\* The Station type (line 8), the typed texts that carry leading or trailing
\* whitespace, and the messages of the insert requests in flight.
STATIONS == GRID_STATIONS \cup {"COORDINATOR"}
Untrimmed == {" ", " hi "}
WellFormed(m) == m.text # "" /\ m.text \notin Untrimmed /\ m.station \in STATIONS
SendsMessage(d) ==
    /\ Len(inflight') = Len(inflight) + 1
    /\ inflight'[Len(inflight')].op = "insert"
    /\ inflight'[Len(inflight')].dev = d

\* C22: every message sent to the backend or stored there has a non-empty
\* trimmed text and a station of the Station type; a device with a station
\* role tags its message with that station, a coordinator with the selected
\* station or with COORDINATOR when none is selected; and a station is
\* selected only while the device's role is coordinator.
C22_MessagesWellFormed ==
    [][ /\ \A i \in 1..Len(dbMessages') : WellFormed(dbMessages'[i])
        /\ \A i \in 1..Len(inflight') :
              inflight'[i].op = "insert" => WellFormed(inflight'[i].val)
        /\ \A d \in Devices :
              /\ selectedStation'[d] # "" => operatorName'[d] = BC_ROLE
              /\ SendsMessage(d) =>
                    LET m == inflight'[Len(inflight')].val
                    IN  /\ operatorName[d] \in GRID_STATIONS =>
                              m.station = operatorName[d]
                        /\ (operatorName[d] = BC_ROLE /\ selectedStation[d] # "") =>
                              m.station = selectedStation[d]
                        /\ (operatorName[d] = BC_ROLE /\ selectedStation[d] = "") =>
                              m.station = "COORDINATOR"
                        /\ operatorName[d] \in GRID_STATIONS \cup {BC_ROLE} ]_vars

\* The backend holds a message a coordinator sent with TICKETS selected and
\* one sent with nothing selected; the device now has the role MERCH.
C22_Witness ==
    /\ Len(dbMessages) = 2
    /\ dbMessages[1].station = "TICKETS" /\ dbMessages[2].station = "COORDINATOR"
    /\ dbMessages[1].text = "hi"
    /\ operatorName[1] = "MERCH" /\ selectedStation[1] = ""
    /\ inputText[1] = " hi "

\* The device is disconnected and none of its connects is in progress.
Disconnected(d) ==
    /\ ~isConnected[d]
    /\ \A k \in Slots : attempt[d][k] \in {"idle", "live"}
\* The step runs a notification handler of one of the device's channels.
ProcessesNotification(d) ==
    \E k \in Slots :
        /\ queue[<<d, k>>] # <<>>
        /\ queue'[<<d, k>>] = Tail(queue[<<d, k>>])
        /\ attempt'[d][k] = "live"

\* C23: a disconnect leaves doorCount 0 and the log empty; while the device
\* is disconnected with no connect in progress, no notification handler of
\* the device runs, and the doorCount and the log of a device that makes no
\* local edit stay as they are.
C23_NoNotificationAfterDisconnect ==
    [][\A d \in Devices :
          /\ (isConnected[d] /\ ~isConnected'[d]) =>
                (doorCount'[d] = 0 /\ messages'[d] = <<>>)
          /\ Disconnected(d) => ~ProcessesNotification(d)
          /\ (d \in Observers /\ Disconnected(d) /\ Disconnected(d)') =>
                (doorCount'[d] = doorCount[d] /\ messages'[d] = messages[d])]_vars

\* The step subscribes a channel of the device.
Subscribes(d) == \E k \in Slots : EndsSubscribed(d, k)

\* C24: a step that changes the role of a device holding a channel leaves the
\* new role in the device's presence record; the step that subscribes a
\* channel leaves in its record the persisted role, which is the role the
\* device holds; so after every step the record of a connected device's
\* channel carries its current role.
C24_PresenceFollowsRole ==
    [][\A d \in Devices :
          /\ (channel[d] # 0 /\ channel'[d] = channel[d]
                  /\ operatorName'[d] # operatorName[d]) =>
                members'[<<d, channel'[d]>>] = operatorName'[d]
          /\ Subscribes(d) =>
                /\ channel'[d] # 0
                /\ members'[<<d, channel'[d]>>] = derby_role'[d]
                /\ derby_role'[d] = operatorName'[d]
          /\ (isConnected'[d] /\ channel'[d] # 0) =>
                members'[<<d, channel'[d]>>] = operatorName'[d]]_vars

\* Device 1 is connected as coordinator, announced as such; device 2 is
\* connected with the role BEER, announced; both chose the role while
\* connected or kept it across a reload.
C24_Witness ==
    /\ isConnected[1] /\ channel[1] # 0
    /\ operatorName[1] = BC_ROLE /\ members[Chan(1)] = BC_ROLE
    /\ isConnected[2] /\ channel[2] # 0
    /\ operatorName[2] = "BEER" /\ members[Chan(2)] = "BEER"
    /\ derby_role[2] = "BEER"

\* Both devices pressed + on the same observed doorCount, both requests were
\* written, and every notification has been handled.
RaceSettled ==
    /\ \A d \in Devices : observed[d] # UNDEF /\ isConnected[d]
    /\ observed[1] = observed[2]
    /\ inflight = <<>> /\ ~writeFailed
    /\ \A c \in Channels : queue[c] = <<>>

\* C25: when two connected devices each pressed + on the same observed
\* doorCount v, both writes succeeded and every notification has been
\* handled, the backend's door_count and every device's doorCount are v + 2.
C25_NoLostIncrement ==
    RaceSettled =>
        /\ row.door_count = observed[1] + 2
        /\ \A d \in Devices : doorCount[d] = observed[1] + 2

====
